---- MODULE Spec2Model ----
(***************************************************************************)
(* Time-based blind SQL injection: the extractor (BlindSQLInjection in     *)
(* blind_sql_injection.py) and the verifier (ExtractionVerifier in         *)
(* verify_extraction.py), modelled probe by probe.                         *)
(*                                                                         *)
(* Characters are represented by their code points (ord / chr), strings by *)
(* sequences of code points, elapsed times by whole milliseconds.          *)
(***************************************************************************)
EXTENDS Integers, Sequences, FiniteSets, TLC

(***************************************************************************)
(* Bounds of the model.                                                    *)
(***************************************************************************)
\* Probes of one behaviour that may deviate from the noise-free answer.
MaxNoise == 1
\* Largest max_chars argument of extract_string in the short runs.
MaxChars == 2
\* Length of the verifier's input in the long runs.
LongInput == 100

(***************************************************************************)
(* Program constants.                                                      *)
(***************************************************************************)
\* self.threshold = 0.42 (seconds), in milliseconds.
Threshold == 420
\* if position % 25 == 0 (extract_string).
CheckpointEvery == 25
\* if position % 50 == 0 (verify_and_correct).
VerifyCheckpointEvery == 50
\* extract_character(position, num_samples=1).
LowConfidence == 1
\* _extract_bit(..., num_samples=3), the extractor's default.
DefaultSamples == 3
\* extract_character(position, num_samples=7) and the verifier's default.
HighConfidence == 7
\* for _ in range(3): the retries of _character_matches.
MismatchRetries == 3
\* _character_matches(position, expected_char, num_samples=1).
MatchSamples == 1
\* attacker.extract_string(max_chars=50) in main.
MainMaxChars == 50

\* _send_injection returns None on a RequestException (network error, timeout).
None == 0 - 1

\* The elapsed times a probe can take: a prompt response, a response that takes
\* exactly the threshold, and a delayed (randomblob) response.
FastTime == Threshold \div 4
SlowTime == Threshold * 3
ElapsedTimes == {FastTime, Threshold, SlowTime}

Extractor == "extractor"
Verifier == "verifier"

EXTRACTED_FILE == "extracted_output.txt"
VERIFIED_FILE == "verified_output.txt"
FileNames == {EXTRACTED_FILE, VERIFIED_FILE}

(***************************************************************************)
(* Pure functions of the code.                                             *)
(***************************************************************************)
Range(s) == {s[i] : i \in 1..Len(s)}

Pow2(k) == IF k = 0 THEN 1
           ELSE IF k = 1 THEN 2
           ELSE IF k = 2 THEN 4
           ELSE IF k = 3 THEN 8
           ELSE IF k = 4 THEN 16
           ELSE IF k = 5 THEN 32
           ELSE IF k = 6 THEN 64
           ELSE 128

\* (code >> bit_position) & 1
BitOf(code, bit_position) == (code \div Pow2(bit_position)) % 2

\* int(binary_string, 2): the digits are read most significant first.
RECURSIVE BinToInt(_)
BinToInt(digits) ==
    IF digits = <<>> THEN 0
    ELSE 2 * BinToInt(SubSeq(digits, 1, Len(digits) - 1)) + digits[Len(digits)]

\* The bits read least significant first.
CharOfBitsLsbFirst(bitlist) ==
    BinToInt([i \in 1..Len(bitlist) |-> bitlist[Len(bitlist) + 1 - i]])

\* chr(int(''.join(bits), 2))
CharOfBits(bitlist) == BinToInt(bitlist)

\* VALID_CHARS of extract_string:
\* A-Z a-z 0-9 + / = \n \r - space :
VALID_CHARS ==
    (65..90) \cup (97..122) \cup (48..57) \cup {43, 47, 61, 10, 13, 45, 32, 58}

\* f.write(text) in text mode with the default newline=None: "\n" (code 10)
\* becomes os.linesep, which is "\n" on POSIX; every other character is kept,
\* and the utf-8 encoding of the file gives every code point back.
WriteText(text) ==
    [i \in 1..Len(text) |-> IF text[i] = 10 THEN 10 ELSE text[i]]

\* f.read() in text mode with the default newline=None (universal newlines):
\* "\r\n" and a lone "\r" (code 13) are both returned as "\n": a "\n" that
\* follows a "\r" is dropped and every "\r" becomes "\n".
ReadText(data) ==
    LET keep == {i \in 1..Len(data) : ~(data[i] = 10 /\ i > 1 /\ data[i - 1] = 13)}
        at(k) == CHOOSE i \in keep : Cardinality({j \in keep : j < i}) = k - 1
    IN  [k \in 1..Cardinality(keep) |->
            IF data[at(k)] = 13 THEN 10 ELSE data[at(k)]]

Prefix(s, n) == SubSeq(s, 1, IF n < Len(s) THEN n ELSE Len(s))
IsPrefix(s, t) == Len(s) <= Len(t) /\ s = SubSeq(t, 1, Len(s))

\* A file that does not exist, and a file holding data.
AbsentFile == [exists |-> FALSE, data |-> <<>>]
FileOf(data) == [exists |-> TRUE, data |-> data]

VARIABLES
    prog,         \* which class the object is: Extractor or Verifier
    secret,       \* the key column of the admin row in the target database
    chan,         \* "live": the server answers; "dead": every request fails
    budget,       \* how many probes of this behaviour may deviate from the noise-free answer
    noise,        \* how many probes have deviated so far
    fs,           \* the files: name -> [exists, data]
    pc,           \* the control point
    returned,     \* the operation that returned last ("none" while one runs)
    calls,        \* operation calls so far
    ret_to,       \* where the running extract_character returns to
    max_chars,    \* extract_string's argument
    input_file,   \* verify_and_correct's argument
    output_file,  \* extract_string's and verify_and_correct's argument
    position,     \* the loop variable of extract_string and verify_and_correct
    char,         \* the last character extract_character returned
    result,       \* extract_string's result
    extracted,    \* verify_and_correct: the string read from input_file
    expected,     \* verify_and_correct: extracted[position - 1]
    is_correct,   \* verify_and_correct: what _character_matches returned
    corrected,    \* verify_and_correct: the corrected string
    mismatches,   \* verify_and_correct: the mismatch list
    num_samples,  \* the argument of the running _extract_bit / _character_matches
    bit_idx,      \* extract_character's loop variable
    bits,         \* extract_character's list of bits
    sample,       \* iterations completed by the running sample loop
    retry,        \* iterations completed by the retry loop of _character_matches
    elapsed,      \* what the last _send_injection returned
    baseline,     \* calibrate
    delayed,      \* calibrate
    warned,       \* calibrate printed its low signal-to-noise warning
    probes,       \* probes issued for the current position (for the current call when no loop runs)
    asked,        \* the bit indices extract_character has asked, in order
    seen,         \* what the probes of the running decision returned, in order (of the last decision when none runs)
    tries,        \* what the calls of extract_character for the current position returned, with their sample counts
    last_event    \* "probe" or "sleep", whichever the program did last ("none" before both)

envVars == <<prog, secret, chan, budget>>
callVars == <<returned, calls, output_file>>
esVars == <<max_chars, result>>
vcVars == <<input_file, extracted, expected, is_correct, corrected, mismatches, retry>>
bitVars == <<ret_to, bit_idx, bits, asked, char, tries>>
calVars == <<baseline, delayed, warned>>

vars == <<prog, secret, chan, budget, noise, fs, pc, returned, calls, ret_to,
          max_chars, input_file, output_file, position, char, result, extracted,
          expected, is_correct, corrected, mismatches, num_samples, bit_idx, bits,
          sample, retry, elapsed, baseline, delayed, warned, probes, asked,
          seen, tries, last_event>>

(***************************************************************************)
(* The target and the probe channel.                                       *)
(***************************************************************************)
\* (unicode(substr(key, char_position, 1)) >> bit_position) & 1 = 1
\* Past the end of the key substr is empty and unicode() is NULL: not true.
BitPredicate(char_position, bit_position) ==
    /\ char_position <= Len(secret)
    /\ BitOf(secret[char_position], bit_position) = 1

\* unicode(substr(key, position, 1)) != ascii_val
NotEqualPredicate(pos, ascii_val) ==
    /\ pos <= Len(secret)
    /\ secret[pos] # ascii_val

\* The response time without noise: randomblob runs exactly when the condition holds.
ExactTime(truth) == IF truth THEN SlowTime ELSE FastTime

\* _send_injection: what one round trip can return, and the noise it uses.
Outcomes(truth) ==
    IF chan = "dead" THEN {[time |-> None, dev |-> 0]}
    ELSE {[time |-> ExactTime(truth), dev |-> 0]}
         \cup (IF noise < budget
               THEN {[time |-> t, dev |-> 1] : t \in (ElapsedTimes \cup {None}) \ {ExactTime(truth)}}
               ELSE {})

(***************************************************************************)
(* BlindSQLInjection.calibrate                                             *)
(***************************************************************************)
CallCalibrate ==
    /\ pc = "idle" /\ prog = Extractor
    /\ calls' = calls + 1
    /\ returned' = "none"
    /\ baseline' = None /\ delayed' = None /\ warned' = FALSE
    /\ probes' = 0
    /\ pc' = "cal_baseline"
    /\ UNCHANGED <<seen, last_event,
                   envVars, noise, fs, output_file, esVars, vcVars, bitVars,
                   position, num_samples, sample, elapsed>>

\* baseline = self._send_injection(false_injection): the condition is '1'='0'.
CalibrateBaseline ==
    /\ pc = "cal_baseline"
    /\ \E o \in Outcomes(FALSE) :
         /\ baseline' = o.time
         /\ noise' = noise + o.dev
    /\ probes' = probes + 1
    /\ pc' = "cal_sleep"
    /\ last_event' = "probe"
    /\ UNCHANGED <<seen,
                   envVars, fs, callVars, esVars, vcVars, bitVars, position,
                   num_samples, sample, elapsed, delayed, warned>>

\* time.sleep(0.5)
CalibrateSleep ==
    /\ pc = "cal_sleep"
    /\ pc' = "cal_delayed"
    /\ last_event' = "sleep"
    /\ UNCHANGED <<seen,
                   envVars, noise, fs, callVars, esVars, vcVars, bitVars, calVars,
                   position, num_samples, sample, elapsed, probes>>

\* delayed = self._send_injection(true_injection): the condition is '1'='1'.
CalibrateDelayed ==
    /\ pc = "cal_delayed"
    /\ \E o \in Outcomes(TRUE) :
         /\ delayed' = o.time
         /\ noise' = noise + o.dev
    /\ probes' = probes + 1
    /\ pc' = "cal_report"
    /\ last_event' = "probe"
    /\ UNCHANGED <<seen,
                   envVars, fs, callVars, esVars, vcVars, bitVars, position,
                   num_samples, sample, elapsed, baseline, warned>>

\* delayed / baseline < 2.5, in whole milliseconds.
LowSignalToNoise(b, d) == 10 * d < 25 * b

\* The prints f"{baseline:.3f}" and f"{delayed:.3f}" raise TypeError on None;
\* then the ratio test, and the return.
CalibrateReport ==
    /\ pc = "cal_report"
    /\ IF baseline = None \/ delayed = None
       THEN /\ pc' = "crashed"
            /\ UNCHANGED <<warned, returned>>
       ELSE /\ warned' = LowSignalToNoise(baseline, delayed)
            /\ returned' = "calibrate"
            /\ pc' = "idle"
    /\ UNCHANGED <<seen, last_event,
                   envVars, noise, fs, calls, output_file, esVars, vcVars, bitVars,
                   position, num_samples, sample, elapsed, baseline, delayed, probes>>

(***************************************************************************)
(* _extract_bit and extract_character, of both classes.                    *)
(***************************************************************************)
\* A failed probe taken for a fast response.
ExtractorSampleIsZeroOrNone(e) ==
    IF e = None THEN TRUE ELSE e < Threshold

\* BlindSQLInjection._extract_bit, one sample: "if elapsed is None: continue",
\* then "if elapsed < self.threshold: return 0".
ExtractorSampleIsZero(e) ==
    IF e = None THEN FALSE ELSE e < Threshold

\* The None test left out of the verifier's condition (None taken for 0 seconds).
VerifierSampleIsZeroOrNone(e) ==
    e = None \/ e < Threshold

\* ExtractionVerifier._extract_bit, one sample:
\* "if elapsed is not None and elapsed < self.threshold: return 0".
VerifierSampleIsZero(e) ==
    e # None /\ e < Threshold

\* The loop "for _ in range(num_samples)" of _extract_bit run on the probe
\* outcomes outs: it returns 0 at the first sample that tests zero, and 1 after
\* num_samples samples; probes is the number of probes it has sent. The bit is
\* None when outs ends before the loop does.
FirstOf(indices) == CHOOSE i \in indices : \A j \in indices : i <= j
ExtractorBit(outs, samples) ==
    LET zeros == {i \in 1..samples : i <= Len(outs) /\ ExtractorSampleIsZero(outs[i])}
    IN  IF zeros # {} THEN [bit |-> 0, probes |-> FirstOf(zeros)]
        ELSE IF Len(outs) >= samples THEN [bit |-> 1, probes |-> samples]
        ELSE [bit |-> None, probes |-> Len(outs)]
VerifierBit(outs, samples) ==
    LET zeros == {i \in 1..samples : i <= Len(outs) /\ VerifierSampleIsZero(outs[i])}
    IN  IF zeros # {} THEN [bit |-> 0, probes |-> FirstOf(zeros)]
        ELSE IF Len(outs) >= samples THEN [bit |-> 1, probes |-> samples]
        ELSE [bit |-> None, probes |-> Len(outs)]

SampleIsZero(e) ==
    IF prog = Extractor THEN ExtractorSampleIsZero(e) ELSE VerifierSampleIsZero(e)

\* range(7, -1, -1): the first bit index, and the one after bit index i.
FirstBitIdx == 7
HasNextBitIdx(i) == i - 1 > -1
NextBitIdx(i) == i - 1

\* The call extract_character(position, samples) up to its first probe.
\* A call that returns to "es_append" is the second one for its position.
StartCharacter(samples, retTo) ==
    /\ num_samples' = samples
    /\ bit_idx' = FirstBitIdx
    /\ bits' = <<>>
    /\ sample' = 0
    /\ asked' = <<FirstBitIdx>>
    /\ ret_to' = retTo
    /\ tries' = IF retTo = "es_append" THEN tries ELSE <<>>
    /\ pc' = "bit_send"

\* elapsed = self._send_injection(injection) in _extract_bit.
ExtractBitSend ==
    /\ pc = "bit_send"
    /\ \E o \in Outcomes(BitPredicate(position, bit_idx)) :
         /\ elapsed' = o.time
         /\ noise' = noise + o.dev
    /\ probes' = probes + 1
    /\ pc' = "bit_sleep"
    /\ seen' = IF sample = 0 THEN <<elapsed'>> ELSE Append(seen, elapsed')
    /\ last_event' = "probe"
    /\ UNCHANGED <<envVars, fs, callVars, esVars, vcVars, bitVars, calVars,
                   position, num_samples, sample>>

\* _extract_bit returns bit b: to its caller when it was called alone, else to
\* the list comprehension of extract_character, which asks the next bit or
\* builds the character and returns it.
ReturnBit(b) ==
    LET newbits == Append(bits, b) IN
    /\ bits' = newbits
    /\ IF ret_to = "bit_caller"
       THEN /\ pc' = "idle"
            /\ returned' = "_extract_bit"
            /\ UNCHANGED <<bit_idx, asked, sample, char, tries>>
       ELSE IF HasNextBitIdx(bit_idx)
       THEN /\ bit_idx' = NextBitIdx(bit_idx)
            /\ asked' = Append(asked, NextBitIdx(bit_idx))
            /\ sample' = 0
            /\ pc' = "bit_send"
            /\ UNCHANGED <<char, returned, tries>>
       ELSE /\ char' = CharOfBits(newbits)
            /\ tries' = Append(tries, [samples |-> num_samples, char |-> CharOfBits(newbits)])
            /\ pc' = ret_to
            /\ returned' = IF ret_to = "idle" THEN "extract_character" ELSE returned
            /\ UNCHANGED <<bit_idx, asked, sample>>

\* A failed probe probed again without counting as one of the samples.
ExtractBitSleepRetryOnNone ==
    /\ pc = "bit_sleep"
    /\ IF elapsed = None
       THEN /\ pc' = "bit_send"
            /\ UNCHANGED <<sample, bits, bit_idx, asked, char, returned, tries>>
       ELSE IF SampleIsZero(elapsed)
       THEN ReturnBit(0)
       ELSE IF sample + 1 < num_samples
            THEN /\ sample' = sample + 1
                 /\ pc' = "bit_send"
                 /\ UNCHANGED <<bits, bit_idx, asked, char, returned, tries>>
            ELSE ReturnBit(1)
    /\ last_event' = "sleep"
    /\ UNCHANGED <<seen,
                   envVars, noise, fs, calls, output_file, esVars, vcVars, calVars,
                   ret_to, position, num_samples, elapsed, probes>>

\* Every sample taken before the bit is decided: no return inside the loop.
ExtractBitSleepNoEarlyExit ==
    /\ pc = "bit_sleep"
    /\ IF sample + 1 < num_samples
       THEN /\ sample' = sample + 1
            /\ pc' = "bit_send"
            /\ UNCHANGED <<bits, bit_idx, asked, char, returned, tries>>
       ELSE IF \E i \in 1..Len(seen) : SampleIsZero(seen[i])
            THEN ReturnBit(0)
            ELSE ReturnBit(1)
    /\ last_event' = "sleep"
    /\ UNCHANGED <<seen,
                   envVars, noise, fs, calls, output_file, esVars, vcVars, calVars,
                   ret_to, position, num_samples, elapsed, probes>>

\* time.sleep(0.1), then the rest of the loop body of _extract_bit.
ExtractBitSleep ==
    /\ pc = "bit_sleep"
    /\ IF SampleIsZero(elapsed)
       THEN ReturnBit(0)
       ELSE IF sample + 1 < num_samples
            THEN /\ sample' = sample + 1
                 /\ pc' = "bit_send"
                 /\ UNCHANGED <<bits, bit_idx, asked, char, returned, tries>>
            ELSE ReturnBit(1)
    /\ last_event' = "sleep"
    /\ UNCHANGED <<seen,
                   envVars, noise, fs, calls, output_file, esVars, vcVars, calVars,
                   ret_to, position, num_samples, elapsed, probes>>

\* A direct call of _extract_bit(char_position, bit_position, num_samples).
CallExtractBit(p, b, samples) ==
    /\ pc = "idle"
    /\ calls' = calls + 1
    /\ returned' = "none"
    /\ position' = p
    /\ probes' = 0
    /\ num_samples' = samples
    /\ bit_idx' = b
    /\ bits' = <<>>
    /\ sample' = 0
    /\ asked' = <<b>>
    /\ ret_to' = "bit_caller"
    /\ tries' = <<>>
    /\ pc' = "bit_send"
    /\ UNCHANGED <<seen, last_event,
                   envVars, noise, fs, output_file, esVars, vcVars, calVars,
                   char, elapsed>>

\* A direct call of extract_character / _extract_character.
CallExtractCharacter(p, samples) ==
    /\ pc = "idle"
    /\ calls' = calls + 1
    /\ returned' = "none"
    /\ position' = p
    /\ probes' = 0
    /\ StartCharacter(samples, "idle")
    /\ UNCHANGED <<seen, last_event,
                   envVars, noise, fs, output_file, esVars, vcVars, calVars,
                   char, elapsed>>

(***************************************************************************)
(* BlindSQLInjection.extract_string                                        *)
(***************************************************************************)
\* The file opened with "a" instead of "w".
WriteFileAppend(name, text) ==
    [fs EXCEPT ![name] = FileOf(fs[name].data \o WriteText(text))]

\* with open(output_file, "w", encoding="utf-8") as f: f.write(text)
WriteFile(name, text) == [fs EXCEPT ![name] = FileOf(WriteText(text))]

\* for position in range(1, max_chars + 1): the first iteration, or the end.
CallExtractString(n, out) ==
    /\ pc = "idle" /\ prog = Extractor
    /\ calls' = calls + 1
    /\ returned' = "none"
    /\ max_chars' = n
    /\ output_file' = out
    /\ result' = <<>>
    /\ position' = 1
    /\ probes' = 0
    /\ IF 1 < n + 1
       THEN StartCharacter(LowConfidence, "es_check")
       ELSE /\ pc' = "es_final"
            /\ UNCHANGED <<num_samples, bit_idx, bits, sample, asked, ret_to, tries>>
    /\ UNCHANGED <<seen, last_event,
                   envVars, noise, fs, vcVars, calVars, char, elapsed>>

\* The first result kept whatever it is.
EsCheckNoRetry ==
    /\ pc = "es_check"
    /\ pc' = "es_append"
    /\ UNCHANGED <<seen, last_event,
                   envVars, noise, fs, callVars, esVars, vcVars, bitVars, calVars,
                   position, num_samples, sample, elapsed, probes>>

\* if char not in VALID_CHARS: char = self.extract_character(position, num_samples=7)
EsCheck ==
    /\ pc = "es_check"
    /\ IF char \notin VALID_CHARS
       THEN StartCharacter(HighConfidence, "es_append")
       ELSE /\ pc' = "es_append"
            /\ UNCHANGED <<num_samples, bit_idx, bits, sample, asked, ret_to, tries>>
    /\ UNCHANGED <<seen, last_event,
                   envVars, noise, fs, callVars, esVars, vcVars, calVars,
                   position, char, elapsed, probes>>

\* result += char
EsAppend ==
    /\ pc = "es_append"
    /\ result' = Append(result, char)
    /\ pc' = "es_checkpoint"
    /\ UNCHANGED <<seen, last_event,
                   envVars, noise, fs, callVars, max_chars, vcVars, bitVars, calVars,
                   position, num_samples, sample, elapsed, probes>>

\* if position % 25 == 0: write the file; then the next iteration, or the end.
EsCheckpoint ==
    /\ pc = "es_checkpoint"
    /\ fs' = IF position % CheckpointEvery = 0
             THEN WriteFile(output_file, result)
             ELSE fs
    /\ IF position + 1 < max_chars + 1
       THEN /\ position' = position + 1
            /\ probes' = 0
            /\ StartCharacter(LowConfidence, "es_check")
       ELSE /\ pc' = "es_final"
            /\ UNCHANGED <<position, probes, num_samples, bit_idx, bits, sample,
                           asked, ret_to, tries>>
    /\ UNCHANGED <<seen, last_event,
                   envVars, noise, callVars, esVars, vcVars, calVars, char, elapsed>>

\* extract_string returning without the write after the loop.
EsFinalNoWrite ==
    /\ pc = "es_final"
    /\ returned' = "extract_string"
    /\ pc' = "idle"
    /\ UNCHANGED <<seen, last_event,
                   envVars, noise, fs, calls, output_file, esVars, vcVars, bitVars,
                   calVars, position, num_samples, sample, elapsed, probes>>

\* The write after the loop, and return result.
EsFinal ==
    /\ pc = "es_final"
    /\ fs' = WriteFile(output_file, result)
    /\ returned' = "extract_string"
    /\ pc' = "idle"
    /\ UNCHANGED <<seen, last_event,
                   envVars, noise, calls, output_file, esVars, vcVars, bitVars,
                   calVars, position, num_samples, sample, elapsed, probes>>

(***************************************************************************)
(* ExtractionVerifier._character_matches                                   *)
(***************************************************************************)
\* ascii_val = ord(expected_char); characters are their code points.
Ord(c) == c

\* The comparison of the first loop turned round: a fast response starts the retries.
MatchSampleVerdictReversed(e) ==
    IF e = None THEN "continue"
    ELSE IF e < Threshold THEN "retry"
    ELSE "next"

\* A failed probe taken for a slow response.
MatchSampleVerdictNoneIsSlow(e) ==
    IF e = None THEN "retry"
    ELSE IF e > Threshold THEN "retry"
    ELSE "next"

\* The first loop of _character_matches, one sample, after the sleep:
\* "continue" on None, "retry" on elapsed > self.threshold, else the next iteration.
MatchSampleVerdict(e) ==
    IF e = None THEN "continue"
    ELSE IF e > Threshold THEN "retry"
    ELSE "next"

\* The retry loop: "if elapsed is not None and elapsed < self.threshold: return True".
RetryIsFast(e) ==
    e # None /\ e < Threshold

\* elapsed = self._send_injection(injection), first loop.
MatchSend ==
    /\ pc = "cm_send"
    /\ \E o \in Outcomes(NotEqualPredicate(position, Ord(expected))) :
         /\ elapsed' = o.time
         /\ noise' = noise + o.dev
    /\ probes' = probes + 1
    /\ pc' = "cm_sleep"
    /\ seen' = IF sample = 0 THEN <<elapsed'>> ELSE Append(seen, elapsed')
    /\ last_event' = "probe"
    /\ UNCHANGED <<envVars, fs, callVars, esVars, vcVars, bitVars, calVars,
                   position, num_samples, sample>>

\* _character_matches returns v to verify_and_correct.
ReturnMatch(v) ==
    /\ is_correct' = v
    /\ pc' = "vc_branch"

\* time.sleep(0.1), then the rest of the first loop's body.
MatchSleep ==
    /\ pc = "cm_sleep"
    /\ IF MatchSampleVerdict(elapsed) = "retry"
       THEN /\ retry' = 0
            /\ pc' = "cmr_send"
            /\ UNCHANGED <<sample, is_correct>>
       ELSE IF sample + 1 < num_samples
            THEN /\ sample' = sample + 1
                 /\ pc' = "cm_send"
                 /\ UNCHANGED <<retry, is_correct>>
            ELSE /\ ReturnMatch(TRUE)
                 /\ UNCHANGED <<retry, sample>>
    /\ last_event' = "sleep"
    /\ UNCHANGED <<seen,
                   envVars, noise, fs, callVars, esVars, bitVars, calVars,
                   input_file, extracted, expected, corrected, mismatches,
                   position, num_samples, elapsed, probes>>

\* elapsed = self._send_injection(injection), retry loop.
RetrySend ==
    /\ pc = "cmr_send"
    /\ \E o \in Outcomes(NotEqualPredicate(position, Ord(expected))) :
         /\ elapsed' = o.time
         /\ noise' = noise + o.dev
    /\ probes' = probes + 1
    /\ pc' = "cmr_sleep"
    /\ seen' = Append(seen, elapsed')
    /\ last_event' = "probe"
    /\ UNCHANGED <<envVars, fs, callVars, esVars, vcVars, bitVars, calVars,
                   position, num_samples, sample>>

\* time.sleep(0.1), then the rest of the retry loop's body.
RetrySleep ==
    /\ pc = "cmr_sleep"
    /\ IF RetryIsFast(elapsed)
       THEN /\ ReturnMatch(TRUE)
            /\ UNCHANGED retry
       ELSE IF retry + 1 < MismatchRetries
            THEN /\ retry' = retry + 1
                 /\ pc' = "cmr_send"
                 /\ UNCHANGED is_correct
            ELSE /\ ReturnMatch(FALSE)
                 /\ UNCHANGED retry
    /\ last_event' = "sleep"
    /\ UNCHANGED <<seen,
                   envVars, noise, fs, callVars, esVars, bitVars, calVars,
                   input_file, extracted, expected, corrected, mismatches,
                   position, num_samples, sample, elapsed, probes>>

(***************************************************************************)
(* ExtractionVerifier.verify_and_correct                                   *)
(***************************************************************************)
\* open(input_file, "r") raises FileNotFoundError when the file is absent;
\* else extracted = f.read(), and the loop starts or is skipped.
CallVerifyAndCorrect(inp, out) ==
    /\ pc = "idle" /\ prog = Verifier
    /\ calls' = calls + 1
    /\ returned' = "none"
    /\ input_file' = inp
    /\ output_file' = out
    /\ probes' = 0
    /\ IF ~fs[inp].exists
       THEN /\ pc' = "crashed"
            /\ UNCHANGED <<extracted, corrected, mismatches, position>>
       ELSE /\ extracted' = ReadText(fs[inp].data)
            /\ corrected' = <<>>
            /\ mismatches' = <<>>
            /\ position' = 1
            /\ pc' = IF 1 < Len(extracted') + 1 THEN "vc_loop" ELSE "vc_final"
    /\ UNCHANGED <<seen, last_event,
                   envVars, noise, fs, esVars, bitVars, calVars, expected,
                   is_correct, retry, num_samples, sample, elapsed>>

\* expected = extracted[position - 1]; the checkpoint of every 50th position,
\* written before the position is verified; then the call of _character_matches.
VcLoop ==
    /\ pc = "vc_loop"
    /\ expected' = extracted[position]
    /\ fs' = IF position % VerifyCheckpointEvery = 0
             THEN WriteFile(output_file, corrected)
             ELSE fs
    /\ num_samples' = MatchSamples
    /\ sample' = 0
    /\ pc' = "cm_send"
    /\ UNCHANGED <<seen, last_event,
                   envVars, noise, callVars, esVars, bitVars, calVars,
                   input_file, extracted, is_correct, corrected, mismatches, retry,
                   position, elapsed, probes>>

\* What mismatches.append(position) stores: the position and nothing else.
MismatchEntry(p) == [position |-> p]

\* The positions of a mismatch list, in order.
Positions(list) == [i \in 1..Len(list) |-> list[i].position]

\* The re-extraction made without recording the position.
VcBranchNoRecord ==
    /\ pc = "vc_branch"
    /\ IF is_correct
       THEN /\ corrected' = Append(corrected, expected)
            /\ pc' = "vc_sleep"
            /\ UNCHANGED <<num_samples, bit_idx, bits, sample, asked, ret_to, tries>>
       ELSE /\ StartCharacter(HighConfidence, "vc_corrected")
            /\ UNCHANGED corrected
    /\ UNCHANGED <<seen, last_event, mismatches,
                   envVars, noise, fs, callVars, esVars, calVars, input_file,
                   extracted, expected, is_correct, retry, position, char, elapsed,
                   probes>>

\* mismatches.append(position - 1): a 0-based position.
VcBranchZeroBased ==
    /\ pc = "vc_branch"
    /\ IF is_correct
       THEN /\ corrected' = Append(corrected, expected)
            /\ pc' = "vc_sleep"
            /\ UNCHANGED <<mismatches, num_samples, bit_idx, bits, sample, asked, ret_to, tries>>
       ELSE /\ mismatches' = Append(mismatches, MismatchEntry(position - 1))
            /\ StartCharacter(HighConfidence, "vc_corrected")
            /\ UNCHANGED corrected
    /\ UNCHANGED <<seen, last_event,
                   envVars, noise, fs, callVars, esVars, calVars, input_file,
                   extracted, expected, is_correct, retry, position, char, elapsed,
                   probes>>

\* if is_correct: corrected += expected
\* else: mismatches.append(position); corrected_char = self._extract_character(position)
VcBranch ==
    /\ pc = "vc_branch"
    /\ IF is_correct
       THEN /\ corrected' = Append(corrected, expected)
            /\ pc' = "vc_sleep"
            /\ UNCHANGED <<mismatches, num_samples, bit_idx, bits, sample, asked, ret_to, tries>>
       ELSE /\ mismatches' = Append(mismatches, MismatchEntry(position))
            /\ StartCharacter(HighConfidence, "vc_corrected")
            /\ UNCHANGED corrected
    /\ UNCHANGED <<seen, last_event,
                   envVars, noise, fs, callVars, esVars, calVars, input_file,
                   extracted, expected, is_correct, retry, position, char, elapsed,
                   probes>>

\* corrected += corrected_char
VcCorrected ==
    /\ pc = "vc_corrected"
    /\ corrected' = Append(corrected, char)
    /\ pc' = "vc_sleep"
    /\ UNCHANGED <<seen, last_event,
                   envVars, noise, fs, callVars, esVars, bitVars, calVars,
                   input_file, extracted, expected, is_correct, mismatches, retry,
                   position, num_samples, sample, elapsed, probes>>

\* time.sleep(0.2); then the next iteration, or the end of the loop.
VcSleep ==
    /\ pc = "vc_sleep"
    /\ IF position + 1 < Len(extracted) + 1
       THEN /\ position' = position + 1
            /\ probes' = 0
            /\ pc' = "vc_loop"
       ELSE /\ pc' = "vc_final"
            /\ UNCHANGED <<position, probes>>
    /\ last_event' = "sleep"
    /\ UNCHANGED <<seen,
                   envVars, noise, fs, callVars, esVars, vcVars, bitVars, calVars,
                   num_samples, sample, elapsed>>

\* The write after the loop, and return corrected, mismatches.
VcFinal ==
    /\ pc = "vc_final"
    /\ fs' = WriteFile(output_file, corrected)
    /\ returned' = "verify_and_correct"
    /\ pc' = "idle"
    /\ UNCHANGED <<seen, last_event,
                   envVars, noise, calls, output_file, esVars, vcVars, bitVars,
                   calVars, position, num_samples, sample, elapsed, probes>>

(***************************************************************************)
(* The initial states and the specifications.                              *)
(***************************************************************************)
\* The state after construction: no operation has run, the locals hold nothing.
Constructed(p, key, c, b, files) ==
    /\ prog = p /\ secret = key /\ chan = c /\ budget = b /\ fs = files
    /\ noise = 0
    /\ pc = "idle" /\ returned = "none" /\ calls = 0 /\ ret_to = "idle"
    /\ max_chars = 0 /\ input_file = EXTRACTED_FILE /\ output_file = EXTRACTED_FILE
    /\ position = 0 /\ char = None /\ result = <<>>
    /\ extracted = <<>> /\ expected = None /\ is_correct = TRUE
    /\ corrected = <<>> /\ mismatches = <<>>
    /\ num_samples = 0 /\ bit_idx = 0 /\ bits = <<>> /\ sample = 0 /\ retry = 0
    /\ elapsed = None /\ baseline = None /\ delayed = None /\ warned = FALSE
    /\ probes = 0 /\ asked = <<>>
    /\ seen = <<>> /\ tries = <<>> /\ last_event = "none"

Channels == {"live", "dead"}

\* "AB" (the scenario of the documentation), "\r:" (in VALID_CHARS, with a
\* carriage return) and "!" followed by code 255 (both outside VALID_CHARS).
Secrets == {<<65, 66>>, <<13, 58>>, <<33, 255>>}

\* What the output file of the extractor may hold before it runs.
OldFiles == {AbsentFile, FileOf(<<88, 89>>)}

\* What extracted_output.txt may hold when the verifier runs.
Inputs == {<<>>, <<65>>, <<65, 66>>, <<65, 67>>, <<13, 58>>, <<67, 66, 65>>}

Files(extractedFile, verifiedFile) ==
    [f \in FileNames |-> IF f = EXTRACTED_FILE THEN extractedFile ELSE verifiedFile]

InitExtractor ==
    \E key \in Secrets, c \in Channels, old \in OldFiles :
        Constructed(Extractor, key, c, MaxNoise, Files(old, AbsentFile))

InitVerifier ==
    \E key \in Secrets, c \in Channels, x \in Inputs :
        Constructed(Verifier, key, c, MaxNoise, Files(FileOf(x), AbsentFile))

Init == InitExtractor \/ InitVerifier

\* The extractor's client calibrates first, or not at all, and extracts once
\* (main: attacker.calibrate(), then attacker.extract_string(max_chars=50)).
CallCalibrateOp == calls = 0 /\ CallCalibrate
CallExtractStringOp ==
    \E n \in 0..MaxChars :
        /\ returned \in {"none", "calibrate"}
        /\ CallExtractString(n, EXTRACTED_FILE)

\* The verifier's client runs the pass on any file, into any file (main:
\* extracted_output.txt into verified_output.txt) ...
CallVerifyAndCorrectOp ==
    \E inp \in FileNames, out \in FileNames :
        calls = 0 /\ CallVerifyAndCorrect(inp, out)

\* ... and may run it once more, on the file the first run wrote.
CallVerifyAgainOp ==
    \E out \in FileNames :
        /\ calls = 1
        /\ returned = "verify_and_correct"
        /\ CallVerifyAndCorrect(output_file, out)

Next ==
    \/ CallCalibrateOp
    \/ CalibrateBaseline
    \/ CalibrateSleep
    \/ CalibrateDelayed
    \/ CalibrateReport
    \/ CallExtractStringOp
    \/ ExtractBitSend
    \/ ExtractBitSleep
    \/ EsCheck
    \/ EsAppend
    \/ EsCheckpoint
    \/ EsFinal
    \/ CallVerifyAndCorrectOp
    \/ CallVerifyAgainOp
    \/ VcLoop
    \/ MatchSend
    \/ MatchSleep
    \/ RetrySend
    \/ RetrySleep
    \/ VcBranch
    \/ VcCorrected
    \/ VcSleep
    \/ VcFinal

Spec == Init /\ [][Next]_vars

\* The runs checked for termination: the extractor on the keys of the
\* expected alphabet, with no old file; the verifier on every key, on the
\* input "AC"; each on a live and on a dead channel.
InitFair ==
    \/ \E key \in {k \in Secrets : Range(k) \subseteq VALID_CHARS}, c \in Channels :
          Constructed(Extractor, key, c, MaxNoise, Files(AbsentFile, AbsentFile))
    \/ \E key \in Secrets, c \in Channels :
          Constructed(Verifier, key, c, MaxNoise, Files(FileOf(<<65, 67>>), AbsentFile))

\* The program is one sequential thread: the interpreter takes the next step,
\* and a probe returns within its 30 s timeout.
FairSpec == InitFair /\ [][Next]_vars /\ WF_vars(Next)

(***************************************************************************)
(* The Character Reconstructor alone, over every byte, without noise.      *)
(***************************************************************************)
Bytes == 0..255
SampleCounts == {LowConfidence, DefaultSamples, HighConfidence}

InitChar ==
    \E b \in Bytes, p \in {Extractor, Verifier} :
        Constructed(p, <<b>>, "live", 0, Files(AbsentFile, AbsentFile))

CallExtractCharacterOp ==
    \E samples \in SampleCounts : calls = 0 /\ CallExtractCharacter(1, samples)

NextChar ==
    \/ CallExtractCharacterOp
    \/ ExtractBitSend
    \/ ExtractBitSleep

SpecChar == InitChar /\ [][NextChar]_vars

(***************************************************************************)
(* The Bit Decider alone, of both classes, under every sequence of probe   *)
(* outcomes: every probe of the call may deviate, or the channel is dead.  *)
(***************************************************************************)
\* "A" is 01000001: bit 0 is set, bit 1 is not.
BitIndices == {0, 1}

InitBit ==
    \E p \in {Extractor, Verifier}, c \in Channels :
        Constructed(p, <<65>>, c, HighConfidence + 1, Files(AbsentFile, AbsentFile))

CallExtractBitOp ==
    \E b \in BitIndices, samples \in SampleCounts :
        calls = 0 /\ CallExtractBit(1, b, samples)

\* extract_character(position, num_samples=1), as extract_string calls it first.
CallExtractCharacterOnceOp ==
    calls = 0 /\ CallExtractCharacter(1, LowConfidence)

NextBit ==
    \/ CallExtractBitOp
    \/ CallExtractCharacterOnceOp
    \/ ExtractBitSend
    \/ ExtractBitSleep

SpecBit == InitBit /\ [][NextBit]_vars

(***************************************************************************)
(* The long runs: the two main functions, far enough to pass checkpoints.  *)
(* At most one probe of a long run deviates from the noise-free answer.    *)
(***************************************************************************)
\* "ABAB...": a key as long as the verifier's input.
LongSecret == [i \in 1..LongInput |-> IF i % 2 = 1 THEN 65 ELSE 66]

\* The key itself, and the key with a wrong character at the first checkpoint.
LongInputs ==
    {LongSecret, [LongSecret EXCEPT ![VerifyCheckpointEvery] = 67]}

InitLong ==
    \/ \E c \in Channels, old \in OldFiles :
          Constructed(Extractor, LongSecret, c, 1, Files(old, AbsentFile))
    \/ \E c \in Channels, x \in LongInputs :
          Constructed(Verifier, LongSecret, c, 1, Files(FileOf(x), AbsentFile))

\* main of blind_sql_injection.py; extract_string may also be called alone.
MainExtractString ==
    /\ returned \in {"none", "calibrate"}
    /\ CallExtractString(MainMaxChars, EXTRACTED_FILE)

\* main of verify_extraction.py.
MainVerifyAndCorrect ==
    /\ calls = 0
    /\ CallVerifyAndCorrect(EXTRACTED_FILE, VERIFIED_FILE)

NextLong ==
    \/ CallCalibrateOp
    \/ CalibrateBaseline
    \/ CalibrateSleep
    \/ CalibrateDelayed
    \/ CalibrateReport
    \/ MainExtractString
    \/ ExtractBitSend
    \/ ExtractBitSleep
    \/ EsCheck
    \/ EsAppend
    \/ EsCheckpoint
    \/ EsFinal
    \/ MainVerifyAndCorrect
    \/ VcLoop
    \/ MatchSend
    \/ MatchSleep
    \/ RetrySend
    \/ RetrySleep
    \/ VcBranch
    \/ VcCorrected
    \/ VcSleep
    \/ VcFinal

SpecLong == InitLong /\ [][NextLong]_vars

(***************************************************************************)
(* The claims.                                                             *)
(***************************************************************************)
NoiseFree == chan = "live" /\ noise = 0
MsbToLsb == <<7, 6, 5, 4, 3, 2, 1, 0>>

\* C1: against a noise-free oracle for a byte b, with 1, 3 or 7 samples, the
\* Character Reconstructor of either class asks bits 7 down to 0, in that order,
\* and returns the character with code b.
C1_ReconstructsByte ==
    /\ IsPrefix(asked, MsbToLsb)
    /\ returned = "extract_character" =>
         /\ asked = MsbToLsb
         /\ char = secret[1]

C1_Witness ==
    /\ returned = "extract_character"
    /\ prog = Verifier
    /\ num_samples = HighConfidence
    /\ secret = <<181>>
    /\ char = 181

\* C2: for a key of characters of the expected alphabet and 1 <= n <= len(key),
\* extract_string(max_chars=n) against a noise-free oracle returns the first n
\* characters of the key, and the file written at completion holds that string.
C2_ExtractsPrefix ==
    ( /\ prog = Extractor
      /\ returned = "extract_string"
      /\ NoiseFree
      /\ Range(secret) \subseteq VALID_CHARS
      /\ 1 <= max_chars /\ max_chars <= Len(secret) )
    => /\ result = Prefix(secret, max_chars)
       /\ fs[output_file] = FileOf(result)

C2_Witness ==
    /\ prog = Extractor
    /\ returned = "extract_string"
    /\ NoiseFree
    /\ secret = <<65, 66>>
    /\ max_chars = 2
    /\ result = <<65, 66>>
    /\ fs[EXTRACTED_FILE] = FileOf(<<65, 66>>)

\* The positions at which x differs from the key, in increasing order.
RECURSIVE DiffPositions(_, _)
DiffPositions(x, n) ==
    IF n = 0 THEN <<>>
    ELSE IF x[n] # secret[n] THEN Append(DiffPositions(x, n - 1), n)
    ELSE DiffPositions(x, n - 1)

\* C3: for an input x no longer than the key, the pass against a noise-free
\* oracle returns the first len(x) characters of the key, and a mismatch list
\* of exactly the positions where x differs from the key.
C3_VerifyCorrects ==
    ( /\ prog = Verifier
      /\ returned = "verify_and_correct"
      /\ NoiseFree
      /\ Len(extracted) <= Len(secret) )
    => /\ corrected = Prefix(secret, Len(extracted))
       /\ Positions(mismatches) = DiffPositions(extracted, Len(extracted))

C3_Witness ==
    /\ prog = Verifier
    /\ returned = "verify_and_correct"
    /\ NoiseFree
    /\ secret = <<65, 66>>
    /\ extracted = <<65, 67>>
    /\ corrected = <<65, 66>>
    /\ Positions(mismatches) = <<2>>

\* C4, as claimed: every entry of the mismatch list carries the position, the
\* original character and the corrected character.
C4_EntriesAreMismatchRecords ==
    \A i \in 1..Len(mismatches) :
        DOMAIN mismatches[i] = {"position", "from", "to"}

\* A step keeps every entry the mismatch list holds.
VerifyEntriesKept ==
    \A i \in 1..Len(mismatches) :
        i <= Len(mismatches') /\ mismatches'[i] = mismatches[i]

\* C4, amended: every entry of the mismatch list is the 1-based position alone,
\* the position being checked when it is added; the original and the corrected
\* character are not part of it (the corrected string holds the character the
\* re-extraction returned there); and an entry is never changed once added.
C4_EntriesArePositions ==
    /\ [](\A i \in 1..Len(mismatches) :
             /\ DOMAIN mismatches[i] = {"position"}
             /\ mismatches[i].position \in 1..Len(extracted)
             /\ mismatches[i].position <= position)
    /\ [][pc # "idle" =>
            /\ VerifyEntriesKept
            /\ Len(mismatches') > Len(mismatches) =>
                 mismatches' = Append(mismatches, MismatchEntry(position))]_vars

C4_Witness ==
    /\ returned = "verify_and_correct"
    /\ secret = <<65, 66>>
    /\ extracted = <<65, 67>>
    /\ mismatches = <<MismatchEntry(2)>>
    /\ corrected = <<65, 66>>

\* C5: in extract_string, under any probe outcomes, once k positions are
\* processed, k a positive multiple of 25, the output file holds exactly the k
\* characters of result: the checkpoint overwrites what the file held.
C5_ExtractCheckpoint ==
    ( /\ prog = Extractor
      /\ Len(result) > 0
      /\ Len(result) % CheckpointEvery = 0
      /\ pc # "es_checkpoint" )
    => fs[output_file] = FileOf(result)

C5_Witness ==
    /\ prog = Extractor
    /\ pc = "es_final"
    /\ Len(result) = 2 * CheckpointEvery
    /\ noise = 1
    /\ fs[output_file] = FileOf(result)

\* The output file as the running pass sees it.
Persisted == fs[output_file].data

\* C6, as claimed: in verify_and_correct, once k positions are verified, k a
\* positive multiple of 50, the output file holds exactly the k characters of
\* corrected; and at completion it holds the whole corrected string.
C6_VerifyCheckpoint ==
    prog = Verifier =>
      /\ ( /\ Len(corrected) > 0
           /\ Len(corrected) % VerifyCheckpointEvery = 0
           /\ pc \in {"vc_loop", "vc_final"} )
         => fs[output_file] = FileOf(corrected)
      /\ returned = "verify_and_correct" => fs[output_file] = FileOf(corrected)

\* C7, as claimed: from an absent output file, in every state of a pass the
\* file is a prefix of the in-memory string and at most interval - 1
\* characters are not persisted (24 in extract_string, 49 in
\* verify_and_correct). The step between "result += char" and the checkpoint
\* that follows it in the same iteration is left out.
C7_BoundedLoss ==
    /\ ( /\ prog = Verifier
         /\ calls > 0
         /\ pc # "crashed" )
       => /\ IsPrefix(Persisted, corrected)
          /\ Len(corrected) - Len(Persisted) <= VerifyCheckpointEvery - 1
    /\ ( /\ prog = Extractor
         /\ pc # "es_checkpoint"
         /\ ~fs[output_file].exists \/ Len(result) >= CheckpointEvery )
       => /\ IsPrefix(Persisted, result)
          /\ Len(result) - Len(Persisted) <= CheckpointEvery - 1

\* C8, as claimed: when the pass has run on an input no longer than the key
\* with a noise-free oracle and runs again on the corrected string it wrote,
\* the second run reports no mismatch and returns its input unchanged.
\* (The second run of a behaviour reads the file the first run wrote.)
C8_VerifyIdempotent ==
    ( /\ prog = Verifier
      /\ calls = 2
      /\ returned = "verify_and_correct"
      /\ NoiseFree
      /\ Len(extracted) <= Len(secret) )
    => /\ mismatches = <<>>
       /\ corrected = extracted

\* C9, as claimed: a failed probe (None) never crashes an operation that
\* issues probes: calibrate, the bit decision, extract_string, verify_and_correct.
\* (The verifier's only other crash is a missing input file, before any probe.)
C9_ChannelFailureNeverCrashes ==
    pc = "crashed" => (prog = Verifier /\ probes = 0)

\* extract_string, verify_and_correct are running.
InExtractString ==
    /\ prog = Extractor
    /\ \/ pc \in {"es_check", "es_append", "es_checkpoint", "es_final"}
       \/ pc \in {"bit_send", "bit_sleep"} /\ ret_to \in {"es_check", "es_append"}

InVerifyAndCorrect ==
    /\ prog = Verifier
    /\ \/ pc \in {"vc_loop", "cm_send", "cm_sleep", "cmr_send", "cmr_sleep",
                  "vc_branch", "vc_corrected", "vc_sleep", "vc_final"}
       \/ pc \in {"bit_send", "bit_sleep"} /\ ret_to = "vc_corrected"

\* 8 * (1 + 7) and 4 + 8 * 7.
MaxProbesExtract == Len(MsbToLsb) * (LowConfidence + HighConfidence)
MaxProbesVerify == MatchSamples + MismatchRetries + Len(MsbToLsb) * HighConfidence

\* C10: under every sequence of probe outcomes extract_string(max_chars=n)
\* issues at most 8 * (1 + 7) probes per position, returns, and returns a
\* string of exactly n characters; verify_and_correct on an input of length m
\* issues at most 4 + 8 * 7 probes per position, returns, and returns a
\* corrected string of exactly m characters.
C10_AlwaysCompletes ==
    /\ []((InExtractString \/ returned = "extract_string") =>
             /\ probes <= MaxProbesExtract
             /\ Len(result) <= max_chars)
    /\ [](returned = "extract_string" => Len(result) = max_chars)
    /\ []((InVerifyAndCorrect \/ returned = "verify_and_correct") =>
             /\ probes <= MaxProbesVerify
             /\ Len(corrected) <= Len(extracted))
    /\ [](returned = "verify_and_correct" => Len(corrected) = Len(extracted))
    /\ InExtractString ~> returned = "extract_string"
    /\ InVerifyAndCorrect ~> returned = "verify_and_correct"

C10_Witness ==
    /\ returned = "verify_and_correct"
    /\ secret = <<33, 255>>
    /\ noise = 1
    /\ extracted = <<65, 67>>
    /\ Len(corrected) = 2
    /\ probes = MaxProbesVerify

\* C11, as claimed: whatever input_file and output_file are, the same file
\* included, no step of a running verify_and_correct changes the input file.
C11_InputNeverMutated ==
    [][(prog = Verifier /\ pc \notin {"idle", "crashed"}) =>
          fs'[input_file] = fs[input_file]]_vars

\* The verdicts of the Timing Oracle as specified: fast below the threshold,
\* slow from the threshold on, neither when the probe failed.
IsFast(t) == t # None /\ t < Threshold
IsSlow(t) == t # None /\ t >= Threshold

\* A bit decision has returned: its probes are in seen, its bit is the last of bits.
BitDecided ==
    /\ bits # <<>>
    /\ \/ pc = "bit_send" /\ sample = 0
       \/ pc \in {"es_check", "es_append", "vc_corrected"}
       \/ pc = "idle" /\ returned \in {"_extract_bit", "extract_character"}
DecidedBit == bits[Len(bits)]

\* A bit decision runs or has returned: seen holds its probes.
InBitDecision ==
    \/ pc = "bit_sleep"
    \/ pc = "bit_send" /\ sample > 0
    \/ BitDecided

\* C12: in a bit decision of either class, with 1, 3 or 7 samples and any
\* probe outcomes, a fast response is the last probe of the decision (none is
\* issued after it for that position and bit) and the decided bit is then 0,
\* whatever the samples before it were.
C12_EarlyExitOnFalse ==
    /\ InBitDecision =>
         \A i \in 1..(Len(seen) - 1) : ~IsFast(seen[i])
    /\ (pc = "bit_send" /\ sample > 0) =>
         \A i \in 1..Len(seen) : ~IsFast(seen[i])
    /\ BitDecided =>
         ((\E i \in 1..Len(seen) : IsFast(seen[i])) => DecidedBit = 0)

C12_Witness ==
    /\ returned = "_extract_bit"
    /\ num_samples = HighConfidence
    /\ seen = <<SlowTime, None, FastTime>>
    /\ probes = 3
    /\ bits = <<0>>

\* C13: a bit decision returns 1 exactly when none of its probes is a fast
\* response, and it has then issued all `samples` probes; when every probe
\* fails the bit is 1, a position whose every probe fails is reconstructed as
\* the character of code 255, and nothing is raised.
C13_FailOpen ==
    /\ BitDecided =>
         /\ DecidedBit = 1 <=> (\A i \in 1..Len(seen) : ~IsFast(seen[i]))
         /\ DecidedBit = 1 => Len(seen) = num_samples
         /\ (\A i \in 1..Len(seen) : seen[i] = None) => DecidedBit = 1
    /\ (returned = "extract_character" /\ chan = "dead") => char = 255
    /\ pc # "crashed"

C13_Witness ==
    /\ returned = "extract_character"
    /\ chan = "dead"
    /\ prog = Extractor
    /\ bits = <<1, 1, 1, 1, 1, 1, 1, 1>>
    /\ seen = <<None>>
    /\ char = 255

\* C14, as claimed: a position is declared a mismatch, and re-extracted with 7
\* samples, only if the initial inequality probe was slow and each of the 3
\* retries returned a slow response (a failed retry is not a slow reading);
\* a fast initial probe accepts the character after exactly one probe, and a
\* fast retry accepts it.
C14_MismatchDecision ==
    /\ pc = "vc_branch" =>
         /\ ~is_correct =>
              /\ Len(seen) = 1 + MismatchRetries
              /\ \A i \in 1..Len(seen) : IsSlow(seen[i])
         /\ IsFast(seen[1]) => (is_correct /\ Len(seen) = 1)
         /\ (\E i \in 2..Len(seen) : IsFast(seen[i])) => is_correct
    /\ (pc \in {"bit_send", "bit_sleep"} /\ ret_to = "vc_corrected") =>
         (~is_correct /\ num_samples = HighConfidence)

\* C15, as claimed: a probe that takes t is slow exactly when t >= threshold
\* and fast exactly when t < threshold, in the Bit Decider (the bit is 0
\* exactly when its last probe was fast), in the initial inequality probe of
\* _character_matches (the retries are made exactly when it was slow) and in
\* the retries (the character is accepted exactly when the last one was fast).
C15_ThresholdRule ==
    /\ BitDecided =>
         (DecidedBit = 0 <=> IsFast(seen[Len(seen)]))
    /\ pc = "vc_branch" =>
         /\ IsSlow(seen[1]) <=> Len(seen) > 1
         /\ Len(seen) > 1 =>
              /\ is_correct <=> IsFast(seen[Len(seen)])
              /\ \A i \in 2..(Len(seen) - 1) : ~IsFast(seen[i])

\* What tries holds once the calls of extract_character for a position are made:
\* one call with 1 sample, and one more with 7 samples exactly when the first
\* result is outside the expected alphabet.
EscalatedOnce ==
    /\ Len(tries) \in {1, 2}
    /\ tries[1].samples = LowConfidence
    /\ Len(tries) = 2 <=> tries[1].char \notin VALID_CHARS
    /\ Len(tries) = 2 => tries[2].samples = HighConfidence

\* C16: in extract_string, for every position, the character is reconstructed
\* with 1 sample first; exactly when that result is outside the expected
\* alphabet the position is reconstructed once more, with 7 samples, and the
\* second result is appended whatever it is; otherwise the first result is
\* appended; one character is appended per position, in position order.
C16_AlphabetEscalation ==
    InExtractString =>
      /\ (pc \in {"bit_send", "bit_sleep"} /\ ret_to = "es_check") =>
           (tries = <<>> /\ num_samples = LowConfidence)
      /\ pc = "es_check" =>
           tries = <<[samples |-> LowConfidence, char |-> char]>>
      /\ (pc \in {"bit_send", "bit_sleep"} /\ ret_to = "es_append") =>
           /\ Len(tries) = 1
           /\ tries[1].samples = LowConfidence
           /\ tries[1].char \notin VALID_CHARS
           /\ num_samples = HighConfidence
      /\ pc = "es_append" =>
           (EscalatedOnce /\ char = tries[Len(tries)].char)
      /\ pc = "es_checkpoint" =>
           /\ EscalatedOnce
           /\ Len(result) = position
           /\ result[position] = tries[Len(tries)].char
      /\ pc \notin {"es_checkpoint", "es_final"} => Len(result) = position - 1
      /\ pc = "es_final" => Len(result) = max_chars

C16_Witness ==
    /\ prog = Extractor
    /\ pc = "es_checkpoint"
    /\ position = 2
    /\ Len(tries) = 2
    /\ tries[1].char \notin VALID_CHARS
    /\ tries[2].char \notin VALID_CHARS
    /\ result[2] = tries[2].char
    /\ result[1] \in VALID_CHARS

\* The probes of seen that did not fail.
Answered == {i \in 1..Len(seen) : seen[i] # None}

\* C17, as claimed: a failed probe is followed by another probe of the same
\* predicate and does not use up one of the attempts: the last probe of a
\* decision is never a failed one, and a bit decided 1 has `samples` answered
\* probes behind it.
C17_FailedProbeRetried ==
    /\ BitDecided =>
         /\ seen[Len(seen)] # None
         /\ DecidedBit = 1 => Cardinality(Answered) = num_samples
    /\ pc = "vc_branch" => seen[Len(seen)] # None

\* C17, amended: a failed probe is skipped, not retried. It uses up one of the
\* attempts (a bit decision issues at most `samples` probes, failed ones
\* included; the inequality check at most 1 + 3) and it is never taken for a
\* fast response; a bit decision whose only probe failed concludes 1, and an
\* inequality check whose initial probe failed accepts the character without
\* another probe.
C17_FailedProbeSkipped ==
    /\ InBitDecision => Len(seen) <= num_samples
    /\ pc = "bit_sleep" => Len(seen) = sample + 1
    /\ BitDecided =>
         /\ DecidedBit = 1 => Len(seen) = num_samples
         /\ seen[Len(seen)] = None => DecidedBit = 1
    /\ pc \in {"cm_sleep", "cmr_send", "cmr_sleep", "vc_branch"} =>
         Len(seen) <= MatchSamples + MismatchRetries
    /\ pc = "vc_branch" =>
         (seen[1] = None => (is_correct /\ Len(seen) = 1))

C17_Witness ==
    /\ pc = "vc_branch"
    /\ seen = <<None>>
    /\ is_correct
    /\ position <= Len(secret)
    /\ expected # secret[position]

\* The control points at which the next step sends a probe.
ProbePoints == {"cal_baseline", "cal_delayed", "bit_send", "cm_send", "cmr_send"}

\* C18, as claimed: probes are sent one at a time by the one thread, and
\* whenever a probe is about to be sent, in calibrate followed by
\* extract_string and in the verifier, the program has slept since the probe
\* before it.
C18_DelayBetweenProbes ==
    pc \in ProbePoints => last_event # "probe"

\* C19: for 1, 3 and 7 samples and every sequence of probe outcomes (fast,
\* threshold, slow, failed), the _extract_bit of the extractor and the
\* _extract_bit of the verifier send the same number of probes and return the
\* same bit: whichever class ran the decision, both loops, run on the outcomes
\* it saw, send exactly those probes and return the bit it returned; and they
\* agree on every single sample.
C19_BitDecidersAgree ==
    /\ pc = "bit_sleep" =>
         (ExtractorSampleIsZero(elapsed) <=> VerifierSampleIsZero(elapsed))
    /\ BitDecided =>
         /\ ExtractorBit(seen, num_samples) = [bit |-> DecidedBit, probes |-> Len(seen)]
         /\ VerifierBit(seen, num_samples) = [bit |-> DecidedBit, probes |-> Len(seen)]

C19_Witness ==
    /\ prog = Verifier
    /\ returned = "_extract_bit"
    /\ num_samples = HighConfidence
    /\ seen = <<None, Threshold, None, FastTime>>
    /\ bits = <<0>>
    /\ ExtractorBit(seen, num_samples) = [bit |-> 0, probes |-> 4]

\* The positions in the mismatch list, and the re-extraction of a character.
MismatchPositions == {mismatches[i].position : i \in 1..Len(mismatches)}
ReExtracting ==
    \/ pc \in {"bit_send", "bit_sleep"} /\ ret_to = "vc_corrected"
    \/ pc = "vc_corrected"

\* C20: in every state of verify_and_correct, under any probe outcomes, the
\* mismatch list is strictly increasing; its positions are positions the loop
\* has verified (each has its character in corrected, but for the one being
\* re-extracted); a position with its character in corrected and not in the
\* list kept the character of the input; and a character is re-extracted only
\* for a position in the list.
C20_MismatchListSound ==
    (InVerifyAndCorrect \/ (prog = Verifier /\ returned = "verify_and_correct")) =>
      /\ \A i \in 1..(Len(mismatches) - 1) :
            mismatches[i].position < mismatches[i + 1].position
      /\ \A p \in MismatchPositions :
            /\ p \in 1..position
            /\ p <= Len(corrected) \/ (ReExtracting /\ p = position)
      /\ \A p \in 1..Len(corrected) :
            p \notin MismatchPositions => corrected[p] = extracted[p]
      /\ ReExtracting => position \in MismatchPositions

C20_Witness ==
    /\ prog = Verifier
    /\ returned = "verify_and_correct"
    /\ secret = <<65, 66>>
    /\ extracted = <<67, 66, 65>>
    /\ Positions(mismatches) = <<1>>
    /\ corrected = <<65, 66, 65>>
====
